---------------------------- MODULE Spec2Model ----------------------------
(***************************************************************************)
(* Model of zarafe's EventManager (src/zarafe/core/event_manager.py): the  *)
(* in-memory list of annotation events, the selection, the bounded undo    *)
(* history and the events.csv codec.                                       *)
(*                                                                         *)
(* Python strings are sequences of one-character strings, so that          *)
(* concatenation, the substring test of is_marker_interval_event and the   *)
(* str()/int() conversions of the CSV codec are computed, not assumed.     *)
(* Column names of a CSV header are only ever compared for equality and    *)
(* are plain TLA+ strings.                                                 *)
(***************************************************************************)
EXTENDS Integers, Sequences, FiniteSets, TLC

(* ----------------------------- bounds ---------------------------------- *)
\* frames the annotator can be positioned at when marking: 0..MaxFrame
MaxFrame == 1
\* number of EventManager calls in one run of the core specification
MaxOps == 5
\* number of calls made after the history has been filled (SpecFull)
MaxFullOps == 3
\* data rows of an events.csv found on disk
MaxRows == 2
\* number of EventManager calls in one run of the loading specification
MaxLoadOps == 2
\* events in the list when it is saved
MaxEvents == 2
\* number of EventManager calls in one save/load run
MaxRoundTripOps == 3
\* number of EventManager calls in one run that saves over a file
MaxSaveOps == 2
\* number of handler calls in one run with the frame display
MaxDisplayOps == 4
\* number of handler calls in one run that switches recordings
MaxSwitchOps == 4
MaxPlayOps == 3
MaxTotalFrames == 3
MaxEditOps == 3

(* ------------------------ program constants ---------------------------- *)
\* selected_event is None
None == -1
\* a bound of an event that is not set
Unset == -1
\* len(self.event_history) > 20
HistoryLimit == 20

(* --------------------------- configuration ----------------------------- *)
\* config.config["event_types"]: two plain types and the marker-interval type
ConfigEventTypes ==
    << [name |-> <<"A">>, applies_to |-> "global"],
       [name |-> <<"B">>, applies_to |-> "global"],
       [name |-> <<"M">>, applies_to |-> "glassesValidator"] >>

\* ProjectConfig.get_event_types(): the names offered by the type combo box
get_event_types == { ConfigEventTypes[i].name : i \in DOMAIN ConfigEventTypes }

Frames == 0..MaxFrame

\* config.config["metadata_schema"] of the project: the fields of MetadataManager
MetadataSchema == {"participant_id", "file_name", "condition", "series_title"}

(* ------------------------- string helpers ------------------------------ *)
\* Python: needle in hay
Contains(needle, hay) ==
    \E i \in 0..(Len(hay) - Len(needle)) :
        \A k \in 1..Len(needle) : hay[i + k] = needle[k]

\* ProjectConfig.is_marker_interval_event
is_marker_interval_event(event_name) ==
    \E i \in DOMAIN ConfigEventTypes :
        /\ ConfigEventTypes[i].applies_to = "glassesValidator"
        /\ Contains(ConfigEventTypes[i].name, event_name)

\* string literals of the code
S_NA == <<"N", ".", "A", ".">>
S_MinusOne == <<"-", "1">>
S_approach == <<"a", "p", "p", "r", "o", "a", "c", "h">>
S_view == <<"v", "i", "e", "w">>
S_ApproachPrefix == <<"A", "p", "p", "r", "o", "a", "c", "h", " ">>
S_ViewPrefix == <<"V", "i", "e", "w", " ">>

\* the value csv.DictReader gives to a column the row has no cell for (None)
PyNone == <<"None">>

\* Python truthiness of a cell: "" and None are false
Falsy(x) == x = << >> \/ x = PyNone

DigitChars == <<"0", "1", "2", "3", "4", "5", "6", "7", "8", "9">>

IsDigit(c) == \E d \in DOMAIN DigitChars : DigitChars[d] = c

DigitValue(c) == (CHOOSE d \in DOMAIN DigitChars : DigitChars[d] = c) - 1

RECURSIVE DigitsValue(_)
DigitsValue(ds) ==
    IF Len(ds) = 0 THEN 0
    ELSE DigitsValue(SubSeq(ds, 1, Len(ds) - 1)) * 10 + DigitValue(ds[Len(ds)])

\* Python int(x) of a cell: an optional sign and decimal digits; anything else
\* (and None) raises
ParseInt(x) ==
    LET signed == Len(x) > 0 /\ x[1] \in {"-", "+"}
        body == IF signed THEN Tail(x) ELSE x
    IN  IF Len(body) = 0 \/ \E i \in DOMAIN body : ~IsDigit(body[i])
        THEN [raised |-> TRUE, val |-> 0]
        ELSE [raised |-> FALSE,
              val |-> IF x[1] = "-" THEN 0 - DigitsValue(body) ELSE DigitsValue(body)]

RECURSIVE NatToStr(_)
NatToStr(n) ==
    IF n < 10 THEN << DigitChars[n + 1] >>
    ELSE NatToStr(n \div 10) \o << DigitChars[(n % 10) + 1] >>

\* Python str(n), as csv.writer applies it to an int cell
IntToStr(n) == IF n < 0 THEN <<"-">> \o NatToStr(0 - n) ELSE NatToStr(n)

(* ------------------------------ state ---------------------------------- *)
VARIABLES
    events,          \* self.events: sequence of [name, start, end]
    selected_event,  \* self.selected_event: an index (0-based) or None
    event_history,   \* self.event_history: sequence of snapshots of events
    last,            \* the last call: its name, result and the state before it
    prev,            \* the call before the last one, recorded the same way
    fuel,            \* calls still to be made in this run
    metadata,        \* MetadataManager.metadata: field name -> string
    csv_file,        \* the file at csv_path (events.csv of the recording)
    saved_events,    \* self.events as handed to the save that wrote csv_file
    has_unsaved_changes,  \* VideoAnnotator.has_unsaved_changes
    cap,             \* video_manager.cap: "None", or a capture "opened" or "unopened"
    current_video_index,  \* VideoAnnotator.current_video_index
    marker_file,     \* markerInterval.tsv in the directory of the recording
    video_manager,   \* the VideoManager's playback fields and its timer
    original_event_names,  \* NewProjectDialog: the names of the event types
                           \*   of the project when the dialog opened
    events_list      \* NewProjectDialog: the items of the list of event types

vars == << events, selected_event, event_history, last, prev, fuel,
           metadata, csv_file, saved_events,
           has_unsaved_changes, cap, current_video_index, marker_file,
           video_manager, original_event_names, events_list >>

\* the EventManager's fields as one value
EM == [events |-> events, selected_event |-> selected_event,
       event_history |-> event_history]

\* EventManager.__init__
NewManager == [events |-> << >>, selected_event |-> None, event_history |-> << >>]

\* Python list.pop(i) for a 0-based index i
Pop(s, i) == SubSeq(s, 1, i) \o SubSeq(s, i + 2, Len(s))

(* ---------------------------- operations ------------------------------- *)
\* save_state with the wrong end popped: the newest snapshot is dropped
save_state_drop_newest(history, evs) ==
    LET h == Append(history, evs)
    IN  IF Len(h) > HistoryLimit THEN SubSeq(h, 1, Len(h) - 1) ELSE h

\* save_state without the limit: nothing is ever dropped
save_state_unbounded(history, evs) == Append(history, evs)

\* EventManager.save_state: append a copy, drop the oldest beyond the limit
save_state(history, evs) ==
    LET h == Append(history, evs)
    IN  IF Len(h) > HistoryLimit THEN Tail(h) ELSE h

\* index (0-based) of the first event named event_type, or None
FirstNamed(evs, event_type) ==
    IF \E i \in DOMAIN evs : evs[i].name = event_type
    THEN (CHOOSE i \in DOMAIN evs :
             /\ evs[i].name = event_type
             /\ \A j \in DOMAIN evs : evs[j].name = event_type => i <= j) - 1
    ELSE None

\* create_event with the snapshot taken before the duplicate check
create_event_snapshot_first(em, event_type) ==
    LET dup == FirstNamed(em.events, event_type)
        h == save_state(em.event_history, em.events)
    IN  IF dup # None
        THEN [events |-> em.events, selected_event |-> dup,
              event_history |-> h,
              ok |-> FALSE, msg |-> "already exists"]
        ELSE [events |-> Append(em.events,
                            [name |-> event_type, start |-> Unset, end |-> Unset]),
              selected_event |-> Len(em.events),
              event_history |-> h,
              ok |-> TRUE, msg |-> "Created"]

\* EventManager.create_event
create_event(em, event_type) ==
    LET dup == FirstNamed(em.events, event_type)
    IN  IF dup # None
        THEN [events |-> em.events, selected_event |-> dup,
              event_history |-> em.event_history,
              ok |-> FALSE, msg |-> "already exists"]
        ELSE [events |-> Append(em.events,
                            [name |-> event_type, start |-> Unset, end |-> Unset]),
              selected_event |-> Len(em.events),
              event_history |-> save_state(em.event_history, em.events),
              ok |-> TRUE, msg |-> "Created"]

\* mark_start with the snapshot taken before the ordering guard, as in the
\* monolithic VideoAnnotator.mark_start of src/main.py
mark_start_snapshot_first(em, frame) ==
    IF em.selected_event = None
    THEN [events |-> em.events, selected_event |-> em.selected_event,
          event_history |-> em.event_history,
          ok |-> FALSE, msg |-> "no event selected"]
    ELSE LET event == em.events[em.selected_event + 1]
             h == save_state(em.event_history, em.events)
         IN  IF event.end # Unset /\ frame > event.end
             THEN [events |-> em.events, selected_event |-> em.selected_event,
                   event_history |-> h,
                   ok |-> FALSE, msg |-> "start after end"]
             ELSE [events |-> [em.events EXCEPT ![em.selected_event + 1].start = frame],
                   selected_event |-> em.selected_event,
                   event_history |-> h,
                   ok |-> TRUE, msg |-> "Marked start"]

\* mark_start that also resets the end of the event it marks
mark_start_resets_end(em, frame) ==
    IF em.selected_event = None
    THEN [events |-> em.events, selected_event |-> em.selected_event,
          event_history |-> em.event_history,
          ok |-> FALSE, msg |-> "no event selected"]
    ELSE LET event == em.events[em.selected_event + 1]
         IN  IF event.end # Unset /\ frame > event.end
             THEN [events |-> em.events, selected_event |-> em.selected_event,
                   event_history |-> em.event_history,
                   ok |-> FALSE, msg |-> "start after end"]
             ELSE [events |-> [em.events EXCEPT ![em.selected_event + 1].start = frame,
                                                ![em.selected_event + 1].end = Unset],
                   selected_event |-> em.selected_event,
                   event_history |-> save_state(em.event_history, em.events),
                   ok |-> TRUE, msg |-> "Marked start"]

\* EventManager.mark_start
mark_start(em, frame) ==
    IF em.selected_event = None
    THEN [events |-> em.events, selected_event |-> em.selected_event,
          event_history |-> em.event_history,
          ok |-> FALSE, msg |-> "no event selected"]
    ELSE LET event == em.events[em.selected_event + 1]
         IN  IF event.end # Unset /\ frame > event.end
             THEN [events |-> em.events, selected_event |-> em.selected_event,
                   event_history |-> em.event_history,
                   ok |-> FALSE, msg |-> "start after end"]
             ELSE [events |-> [em.events EXCEPT ![em.selected_event + 1].start = frame],
                   selected_event |-> em.selected_event,
                   event_history |-> save_state(em.event_history, em.events),
                   ok |-> TRUE, msg |-> "Marked start"]

\* mark_end without the ordering guard
mark_end_unguarded(em, frame) ==
    IF em.selected_event = None
    THEN [events |-> em.events, selected_event |-> em.selected_event,
          event_history |-> em.event_history,
          ok |-> FALSE, msg |-> "no event selected"]
    ELSE [events |-> [em.events EXCEPT ![em.selected_event + 1].end = frame],
          selected_event |-> em.selected_event,
          event_history |-> save_state(em.event_history, em.events),
          ok |-> TRUE, msg |-> "Marked end"]

\* EventManager.mark_end
mark_end(em, frame) ==
    IF em.selected_event = None
    THEN [events |-> em.events, selected_event |-> em.selected_event,
          event_history |-> em.event_history,
          ok |-> FALSE, msg |-> "no event selected"]
    ELSE LET event == em.events[em.selected_event + 1]
         IN  IF event.start # Unset /\ frame < event.start
             THEN [events |-> em.events, selected_event |-> em.selected_event,
                   event_history |-> em.event_history,
                   ok |-> FALSE, msg |-> "end before start"]
             ELSE [events |-> [em.events EXCEPT ![em.selected_event + 1].end = frame],
                   selected_event |-> em.selected_event,
                   event_history |-> save_state(em.event_history, em.events),
                   ok |-> TRUE, msg |-> "Marked end"]

\* delete_selected_event without the reset of the selection on an empty list
delete_selected_event_keep_selection(em) ==
    IF em.selected_event = None
    THEN [events |-> em.events, selected_event |-> em.selected_event,
          event_history |-> em.event_history,
          ok |-> FALSE, msg |-> "no event selected"]
    ELSE IF 0 <= em.selected_event /\ em.selected_event < Len(em.events)
    THEN LET rest == Pop(em.events, em.selected_event)
         IN  [events |-> rest,
              selected_event |->
                  IF Len(rest) # 0 /\ em.selected_event >= Len(rest)
                  THEN Len(rest) - 1
                  ELSE em.selected_event,
              event_history |-> save_state(em.event_history, em.events),
              ok |-> TRUE, msg |-> "Deleted"]
    ELSE [events |-> em.events, selected_event |-> em.selected_event,
          event_history |-> em.event_history,
          ok |-> FALSE, msg |-> "Invalid event selection"]

\* delete_selected_event moving the selection to the last event in every case
delete_selected_event_select_last(em) ==
    IF em.selected_event = None
    THEN [events |-> em.events, selected_event |-> em.selected_event,
          event_history |-> em.event_history,
          ok |-> FALSE, msg |-> "no event selected"]
    ELSE IF 0 <= em.selected_event /\ em.selected_event < Len(em.events)
    THEN LET rest == Pop(em.events, em.selected_event)
         IN  [events |-> rest,
              selected_event |-> IF Len(rest) = 0 THEN None ELSE Len(rest) - 1,
              event_history |-> save_state(em.event_history, em.events),
              ok |-> TRUE, msg |-> "Deleted"]
    ELSE [events |-> em.events, selected_event |-> em.selected_event,
          event_history |-> em.event_history,
          ok |-> FALSE, msg |-> "Invalid event selection"]

\* EventManager.delete_selected_event
delete_selected_event(em) ==
    IF em.selected_event = None
    THEN [events |-> em.events, selected_event |-> em.selected_event,
          event_history |-> em.event_history,
          ok |-> FALSE, msg |-> "no event selected"]
    ELSE IF 0 <= em.selected_event /\ em.selected_event < Len(em.events)
    THEN LET rest == Pop(em.events, em.selected_event)
         IN  [events |-> rest,
              selected_event |->
                  IF Len(rest) = 0 THEN None
                  ELSE IF em.selected_event >= Len(rest) THEN Len(rest) - 1
                  ELSE em.selected_event,
              event_history |-> save_state(em.event_history, em.events),
              ok |-> TRUE, msg |-> "Deleted"]
    ELSE [events |-> em.events, selected_event |-> em.selected_event,
          event_history |-> em.event_history,
          ok |-> FALSE, msg |-> "Invalid event selection"]

\* EventManager.select_event
select_event(em, index) ==
    IF 0 <= index /\ index < Len(em.events)
    THEN [events |-> em.events, selected_event |-> index,
          event_history |-> em.event_history, ok |-> TRUE, msg |-> ""]
    ELSE [events |-> em.events, selected_event |-> em.selected_event,
          event_history |-> em.event_history, ok |-> FALSE, msg |-> ""]

\* undo reading the newest snapshot without popping it
undo_keep_history(em) ==
    IF em.event_history = << >>
    THEN [events |-> em.events, selected_event |-> em.selected_event,
          event_history |-> em.event_history,
          ok |-> FALSE, msg |-> "No actions to undo"]
    ELSE LET prev_selected == em.selected_event
             restored == em.event_history[Len(em.event_history)]
         IN  [events |-> restored,
              selected_event |->
                  IF prev_selected # None /\ prev_selected < Len(restored)
                  THEN prev_selected ELSE None,
              event_history |-> em.event_history,
              ok |-> TRUE, msg |-> "Undid last action"]

\* undo without the range check of the selection it keeps
undo_keep_selection(em) ==
    IF em.event_history = << >>
    THEN [events |-> em.events, selected_event |-> em.selected_event,
          event_history |-> em.event_history,
          ok |-> FALSE, msg |-> "No actions to undo"]
    ELSE LET prev_selected == em.selected_event
             restored == em.event_history[Len(em.event_history)]
         IN  [events |-> restored,
              selected_event |-> prev_selected,
              event_history |-> SubSeq(em.event_history, 1, Len(em.event_history) - 1),
              ok |-> TRUE, msg |-> "Undid last action"]

\* jump_to_event without the use_end branch: the start always comes first
jump_to_event_start_first(em, index, use_end) ==
    LET event == em.events[index + 1]
    IN  [events |-> em.events, selected_event |-> em.selected_event,
         event_history |-> em.event_history, ok |-> TRUE, msg |-> "",
         ret |-> IF 0 <= index /\ index < Len(em.events)
                 THEN (IF event.start # -1 THEN event.start
                       ELSE IF event.end # -1 THEN event.end
                       ELSE None)
                 ELSE None]

\* EventManager.jump_to_event: the frame it returns, or None
jump_to_event(em, index, use_end) ==
    LET event == em.events[index + 1]
    IN  [events |-> em.events, selected_event |-> em.selected_event,
         event_history |-> em.event_history, ok |-> TRUE, msg |-> "",
         ret |-> IF 0 <= index /\ index < Len(em.events)
                 THEN (IF use_end /\ event.end # -1 THEN event.end
                       ELSE IF event.start # -1 THEN event.start
                       ELSE IF event.end # -1 THEN event.end
                       ELSE None)
                 ELSE None]

\* EventManager.undo
undo(em) ==
    IF em.event_history = << >>
    THEN [events |-> em.events, selected_event |-> em.selected_event,
          event_history |-> em.event_history,
          ok |-> FALSE, msg |-> "No actions to undo"]
    ELSE LET prev_selected == em.selected_event
             restored == em.event_history[Len(em.event_history)]
         IN  [events |-> restored,
              selected_event |->
                  IF prev_selected # None /\ prev_selected < Len(restored)
                  THEN prev_selected ELSE None,
              event_history |-> SubSeq(em.event_history, 1, Len(em.event_history) - 1),
              ok |-> TRUE, msg |-> "Undid last action"]

\* EventManager.clear
clear(em) ==
    [events |-> << >>, selected_event |-> None, event_history |-> << >>,
     ok |-> TRUE, msg |-> ""]

(* ----------------------------- events.csv ------------------------------ *)
\* header written by save_to_csv
HUniversal == <<"participant_id", "file_name", "event_name",
                "start_frame", "end_frame", "duration">>

\* header written by the monolithic VideoAnnotator.save_events (src/main.py)
HMuisti == <<"participant_id", "file_name", "condition", "series_title",
             "image_name", "monitor_id", "event_type",
             "start_frame", "end_frame", "duration">>

\* csv.DictReader: row.get(col, default); the last column of that name wins,
\* and a column the row is too short for reads as None
Get(header, row, col, default) ==
    IF \E i \in DOMAIN header : header[i] = col
    THEN LET i == CHOOSE k \in DOMAIN header :
                      /\ header[k] = col
                      /\ \A j \in DOMAIN header : header[j] = col => j <= k
         IN  IF i <= Len(row) THEN row[i] ELSE PyNone
    ELSE default

InHeader(col, header) == \E i \in DOMAIN header : header[i] = col

\* int(cell) if cell not in ["-1", "N.A."] else -1
FrameOf(cell) ==
    IF cell = S_MinusOne \/ cell = S_NA
    THEN [raised |-> FALSE, val |-> Unset]
    ELSE ParseInt(cell)

\* the name load_from_csv gives to the event of a row, or "skip" for `continue`
RowName(header, row) ==
    IF InHeader("event_name", header)
    THEN LET event_name == Get(header, row, "event_name", << >>)
         IN  IF Falsy(event_name) THEN [skip |-> TRUE, name |-> << >>]
             ELSE [skip |-> FALSE, name |-> event_name]
    ELSE IF InHeader("monitor_id", header) /\ InHeader("event_type", header)
    THEN LET event_type == Get(header, row, "event_type", << >>)
             monitor_id == Get(header, row, "monitor_id", << >>)
         IN  IF event_type = S_NA \/ Falsy(event_type) \/ Falsy(monitor_id)
             THEN [skip |-> TRUE, name |-> << >>]
             ELSE IF event_type = S_approach
             THEN [skip |-> FALSE, name |-> S_ApproachPrefix \o monitor_id]
             ELSE IF event_type = S_view
             THEN [skip |-> FALSE, name |-> S_ViewPrefix \o monitor_id]
             ELSE [skip |-> TRUE, name |-> << >>]
    ELSE [skip |-> TRUE, name |-> << >>]

\* the body of the row loop of load_from_csv for one row
ParseRow(header, row) ==
    LET n == RowName(header, row)
        start == FrameOf(Get(header, row, "start_frame", S_NA))
        end == FrameOf(Get(header, row, "end_frame", S_NA))
    IN  IF n.skip THEN [kind |-> "skip"]
        ELSE IF start.raised \/ end.raised THEN [kind |-> "raise"]
        ELSE [kind |-> "event",
              event |-> [name |-> n.name, start |-> start.val, end |-> end.val]]

\* the row loop of load_from_csv: the events appended so far, and whether the
\* loop ended by an exception; csv.DictReader passes over rows without cells
RECURSIVE LoadRows(_, _, _)
LoadRows(header, rows, acc) ==
    IF Len(rows) = 0 THEN [raised |-> FALSE, events |-> acc]
    ELSE IF Len(Head(rows)) = 0 THEN LoadRows(header, Tail(rows), acc)
    ELSE LET r == ParseRow(header, Head(rows))
         IN  IF r.kind = "raise" THEN [raised |-> TRUE, events |-> acc]
             ELSE IF r.kind = "skip" THEN LoadRows(header, Tail(rows), acc)
             ELSE LoadRows(header, Tail(rows), Append(acc, r.event))

\* EventManager.load_from_csv
load_from_csv(em, file) ==
    IF ~file.exists
    THEN [events |-> << >>, selected_event |-> em.selected_event,
          event_history |-> em.event_history,
          ok |-> FALSE, msg |-> "Error loading events"]
    ELSE LET r == LoadRows(file.header, file.rows, << >>)
         IN  IF r.raised
             THEN [events |-> r.events, selected_event |-> em.selected_event,
                   event_history |-> em.event_history,
                   ok |-> FALSE, msg |-> "Error loading events"]
             ELSE [events |-> r.events,
                   selected_event |-> IF Len(r.events) # 0 THEN 0
                                      ELSE em.selected_event,
                   event_history |-> em.event_history,
                   ok |-> TRUE, msg |-> "Loaded"]

\* is_complete asking for the fields of the default schema only
RequiredFields_default == <<"participant_id", "file_name">>

\* MetadataManager.is_complete: all() stops at the first empty field, and a
\* field the mapping lacks raises KeyError when it is reached
RequiredFields == <<"participant_id", "condition", "series_title">>

RECURSIVE AllFilled(_, _)
AllFilled(meta, fields) ==
    IF Len(fields) = 0 THEN [raised |-> FALSE, val |-> TRUE]
    ELSE IF Head(fields) \notin DOMAIN meta THEN [raised |-> TRUE, val |-> FALSE]
    ELSE IF meta[Head(fields)] = << >> THEN [raised |-> FALSE, val |-> FALSE]
    ELSE AllFilled(meta, Tail(fields))

is_complete(meta) == AllFilled(meta, RequiredFields)

\* MetadataManager.get_field
get_field(meta, field) == IF field \in DOMAIN meta THEN meta[field] ELSE << >>

\* VideoManager.fps as set by __init__; load_video replaces it by the frame
\* rate of the file
fps == 30

\* Python round(n / d, 1) for d > 0, in tenths: ties go to the even tenth
RoundTenths(n, d) ==
    LET q == (10 * n) \div d
        r == (10 * n) % d
    IN  IF 2 * r > d THEN q + 1
        ELSE IF 2 * r = d THEN q + (q % 2)
        ELSE q

\* VideoManager.calculate_duration: None, or the seconds in tenths
calculate_duration(start_frame, end_frame) ==
    IF start_frame = -1 \/ end_frame = -1 \/ fps = 0
    THEN [none |-> TRUE, tenths |-> 0]
    ELSE [none |-> FALSE, tenths |-> RoundTenths(end_frame - start_frame + 1, fps)]

\* Python str(x) of a float with one decimal, given in tenths
FloatToStr(tenths) ==
    LET a == IF tenths < 0 THEN 0 - tenths ELSE tenths
    IN  (IF tenths < 0 THEN <<"-">> ELSE << >>)
            \o NatToStr(a \div 10) \o <<".">> \o << DigitChars[(a % 10) + 1] >>

\* EventManager._calculate_duration_seconds: the body is `return None`
_calculate_duration_seconds(start_frame, end_frame) ==
    [none |-> TRUE, tenths |-> 0]

\* duration_str = str(duration) if duration is not None else "N.A."
duration_str(duration) ==
    IF ~duration.none THEN FloatToStr(duration.tenths) ELSE S_NA

\* the loop of save_to_csv over self.events: the rows to write, or the first
\* event without a start or an end
RECURSIVE RowsToWrite(_, _, _)
RowsToWrite(evs, meta, acc) ==
    IF Len(evs) = 0 THEN [ok |-> TRUE, rows |-> acc, name |-> << >>]
    ELSE LET event == Head(evs)
         IN  IF is_marker_interval_event(event.name)
             THEN RowsToWrite(Tail(evs), meta, acc)
             ELSE IF event.start = Unset \/ event.end = Unset
             THEN [ok |-> FALSE, rows |-> acc, name |-> event.name]
             ELSE RowsToWrite(Tail(evs), meta,
                      Append(acc, [participant_id |-> get_field(meta, "participant_id"),
                                   file_name |-> get_field(meta, "file_name"),
                                   event_name |-> event.name,
                                   start_frame |-> event.start,
                                   end_frame |-> event.end,
                                   duration |-> duration_str(
                                       _calculate_duration_seconds(event.start,
                                                                   event.end))]))

\* rows_to_write.sort(key=start frame): Python's sort is stable
RECURSIVE InsertRow(_, _)
InsertRow(sorted, row) ==
    IF Len(sorted) = 0 THEN << row >>
    ELSE IF sorted[Len(sorted)].start_frame <= row.start_frame
    THEN Append(sorted, row)
    ELSE Append(InsertRow(SubSeq(sorted, 1, Len(sorted) - 1), row),
                sorted[Len(sorted)])

\* save_to_csv without the sort: the rows stay in list order
SortRows_list_order(rows) == rows

RECURSIVE SortRows(_)
SortRows(rows) ==
    IF Len(rows) = 0 THEN << >>
    ELSE InsertRow(SortRows(SubSeq(rows, 1, Len(rows) - 1)), rows[Len(rows)])

\* csv.writer.writerow: every cell through str()
WriteRow(row) ==
    << row.participant_id, row.file_name, row.event_name,
       IntToStr(row.start_frame), IntToStr(row.end_frame), row.duration >>

\* save_to_csv writing the frame numbers one-based
WriteRowOneBased(row) ==
    << row.participant_id, row.file_name, row.event_name,
       IntToStr(row.start_frame + 1), IntToStr(row.end_frame + 1), row.duration >>

save_to_csv_one_based(em, meta, file) ==
    LET complete == is_complete(meta)
        r == RowsToWrite(em.events, meta, << >>)
        sorted == SortRows(r.rows)
    IN  IF complete.raised
        THEN [ok |-> FALSE, msg |-> "Failed to save events", named |-> << >>,
              file |-> file]
        ELSE IF ~complete.val
        THEN [ok |-> FALSE, msg |-> "fill in all metadata fields", named |-> << >>,
              file |-> file]
        ELSE IF ~r.ok
        THEN [ok |-> FALSE, msg |-> "missing start or end time", named |-> r.name,
              file |-> file]
        ELSE [ok |-> TRUE, msg |-> "Events saved", named |-> << >>,
              file |-> [exists |-> TRUE, header |-> HUniversal,
                        rows |-> [i \in DOMAIN sorted |-> WriteRowOneBased(sorted[i])]]]

\* save_to_csv opening the file before the loop and writing each row as it is
\* built: an incomplete event leaves the rows before it in the file
save_to_csv_write_first(em, meta, file) ==
    LET complete == is_complete(meta)
        r == RowsToWrite(em.events, meta, << >>)
        sorted == SortRows(r.rows)
    IN  IF complete.raised
        THEN [ok |-> FALSE, msg |-> "Failed to save events", named |-> << >>,
              file |-> file]
        ELSE IF ~complete.val
        THEN [ok |-> FALSE, msg |-> "fill in all metadata fields", named |-> << >>,
              file |-> file]
        ELSE IF ~r.ok
        THEN [ok |-> FALSE, msg |-> "missing start or end time", named |-> r.name,
              file |-> [exists |-> TRUE, header |-> HUniversal,
                        rows |-> [i \in DOMAIN r.rows |-> WriteRow(r.rows[i])]]]
        ELSE [ok |-> TRUE, msg |-> "Events saved", named |-> << >>,
              file |-> [exists |-> TRUE, header |-> HUniversal,
                        rows |-> [i \in DOMAIN sorted |-> WriteRow(sorted[i])]]]

\* EventManager.save_to_csv: the returned pair, the event the message names and
\* the file at csv_path
save_to_csv(em, meta, file) ==
    LET complete == is_complete(meta)
        r == RowsToWrite(em.events, meta, << >>)
        sorted == SortRows(r.rows)
    IN  IF complete.raised
        THEN [ok |-> FALSE, msg |-> "Failed to save events", named |-> << >>,
              file |-> file]
        ELSE IF ~complete.val
        THEN [ok |-> FALSE, msg |-> "fill in all metadata fields", named |-> << >>,
              file |-> file]
        ELSE IF ~r.ok
        THEN [ok |-> FALSE, msg |-> "missing start or end time", named |-> r.name,
              file |-> file]
        ELSE [ok |-> TRUE, msg |-> "Events saved", named |-> << >>,
              file |-> [exists |-> TRUE, header |-> HUniversal,
                        rows |-> [i \in DOMAIN sorted |-> WriteRow(sorted[i])]]]

(* -------------------------- markerInterval.tsv ------------------------- *)
\* header written by save_marker_intervals
HMarker == <<"start_frame", "end_frame">>

\* the marker_event_name of load_marker_intervals: the name of the first
\* event type with applies_to == "glassesValidator", if there is one
marker_event_name ==
    IF \E i \in DOMAIN ConfigEventTypes :
           ConfigEventTypes[i].applies_to = "glassesValidator"
    THEN [found |-> TRUE,
          name |-> ConfigEventTypes[
                       CHOOSE i \in DOMAIN ConfigEventTypes :
                           /\ ConfigEventTypes[i].applies_to = "glassesValidator"
                           /\ \A j \in 1..(i - 1) :
                                  ConfigEventTypes[j].applies_to # "glassesValidator"
                   ].name]
    ELSE [found |-> FALSE, name |-> << >>]

\* the row loop of load_marker_intervals from the i-th row on: int() raising
\* ends the loop, and the events appended before stay in the list
RECURSIVE LoadMarkerRows(_, _, _, _)
LoadMarkerRows(header, rows, i, evs) ==
    IF Len(rows) = 0 THEN evs
    ELSE IF Len(Head(rows)) = 0 THEN LoadMarkerRows(header, Tail(rows), i, evs)
    ELSE LET start_frame == ParseInt(Get(header, Head(rows), "start_frame", <<"0">>))
             end_frame == ParseInt(Get(header, Head(rows), "end_frame", <<"0">>))
         IN  IF start_frame.raised \/ end_frame.raised THEN evs
             ELSE LoadMarkerRows(header, Tail(rows), i + 1,
                      Append(evs, [name |-> marker_event_name.name \o <<" ">>
                                                \o NatToStr(i + 1),
                                   start |-> start_frame.val,
                                   end |-> end_frame.val]))

\* EventManager.load_marker_intervals: the manager's fields after the call
load_marker_intervals(em, file) ==
    IF ~marker_event_name.found \/ ~file.exists THEN em
    ELSE [em EXCEPT !.events = LoadMarkerRows(file.header, file.rows, 0, em.events)]

\* save_marker_intervals without the test of the bounds: every marker
\* interval event gets a row
save_marker_intervals_all(evs, file) ==
    LET marker_events == SelectSeq(evs, LAMBDA e : is_marker_interval_event(e.name))
    IN  IF Len(marker_events) = 0 THEN file
        ELSE [exists |-> TRUE, header |-> HMarker,
              rows |-> [k \in DOMAIN marker_events |->
                           << IntToStr(marker_events[k].start),
                              IntToStr(marker_events[k].end) >>]]

\* EventManager.save_marker_intervals: the file at marker_path after the call
save_marker_intervals(evs, file) ==
    LET marker_events == SelectSeq(evs, LAMBDA e : is_marker_interval_event(e.name))
        completed == SelectSeq(marker_events,
                               LAMBDA e : e.start # -1 /\ e.end # -1)
    IN  IF Len(marker_events) = 0 THEN file
        ELSE [exists |-> TRUE, header |-> HMarker,
              rows |-> [k \in DOMAIN completed |->
                           << IntToStr(completed[k].start),
                              IntToStr(completed[k].end) >>]]

(* ---------------------------- frame display ---------------------------- *)
\* VideoDisplay.check_frame_in_event: the first event with both bounds set
\* that holds video_manager.current_frame + 1
check_frame_in_event(evs, video_current_frame) ==
    LET current_frame == video_current_frame + 1
        hit(i) == /\ evs[i].start # -1
                  /\ evs[i].end # -1
                  /\ evs[i].start <= current_frame
                  /\ current_frame <= evs[i].end
    IN  IF \E i \in DOMAIN evs : hit(i)
        THEN [in_event |-> TRUE,
              name |-> evs[CHOOSE i \in DOMAIN evs :
                               hit(i) /\ \A j \in 1..(i - 1) : ~hit(j)].name]
        ELSE [in_event |-> FALSE, name |-> << >>]

(* ------------------------- opening a recording ------------------------- *)
\* the metadata_manager argument of VideoAnnotator.save_events: it hands
\* self.current_file_name, a str, to save_to_csv; a str has no is_complete,
\* so the call raises inside the try as is_complete does on a mapping
\* without the required fields
current_file_name == [f \in {} |-> << >>]

\* VideoAnnotator.save_events from the point where save_to_csv returned r
after_save_to_csv(r, evs, tsv, unsaved) ==
    IF r.ok
    THEN [csv |-> r.file, tsv |-> save_marker_intervals(evs, tsv), unsaved |-> FALSE]
    ELSE [csv |-> r.file, tsv |-> tsv, unsaved |-> unsaved]

\* VideoAnnotator.save_events: events.csv, markerInterval.tsv and
\* has_unsaved_changes after the call
save_events(em, video_cap, index, csv, tsv, unsaved) ==
    IF video_cap = "None" \/ index < 0
    THEN [csv |-> csv, tsv |-> tsv, unsaved |-> unsaved]
    ELSE after_save_to_csv(save_to_csv(em, current_file_name, csv),
                           em.events, tsv, unsaved)

\* VideoAnnotator.check_unsaved_changes: whether to go on, and the files and
\* the flag after the save the Save button makes
check_unsaved_changes(reply, em, video_cap, index, csv, tsv, unsaved) ==
    IF ~unsaved
    THEN [proceed |-> TRUE, csv |-> csv, tsv |-> tsv, unsaved |-> unsaved]
    ELSE IF reply = "Save"
    THEN [proceed |-> TRUE] @@ save_events(em, video_cap, index, csv, tsv, unsaved)
    ELSE [proceed |-> reply # "Cancel", csv |-> csv, tsv |-> tsv,
          unsaved |-> unsaved]

\* _cleanup_previous_video clearing the list and the selection only
_cleanup_previous_video_keep_history(em) ==
    [events |-> << >>, selected_event |-> None, event_history |-> em.event_history]

\* VideoAnnotator._cleanup_previous_video: self.event_manager.clear()
_cleanup_previous_video(em) ==
    [events |-> clear(em).events, selected_event |-> clear(em).selected_event,
     event_history |-> clear(em).event_history]

\* the events.csv loader of _load_associated_data from the point where
\* load_from_csv returned l: the pair it returns is never false, so
\* save_state runs
and_save_state(l) ==
    [events |-> l.events, selected_event |-> l.selected_event,
     event_history |-> save_state(l.event_history, l.events)]

\* _load_associated_data after events.csv was dealt with: markerInterval.tsv
\* goes through load_marker_intervals if it exists
load_marker_file(em, tsv) ==
    IF tsv.exists THEN load_marker_intervals(em, tsv) ELSE em

\* VideoAnnotator._load_associated_data: events.csv, if it exists, through
\* load_from_csv and then save_state, then markerInterval.tsv
_load_associated_data(em, csv, tsv) ==
    load_marker_file(IF csv.exists THEN and_save_state(load_from_csv(em, csv))
                     ELSE em,
                     tsv)

\* VideoAnnotator.load_video from the point where check_unsaved_changes
\* returned chk: the window after the call and what the call came to; c and t
\* are the files in the directory of the recording
load_video(em, video_cap, current, index, opens, chk, c, t) ==
    IF ~chk.proceed
    THEN [em |-> em, cap |-> video_cap, index |-> current,
          csv |-> chk.csv, tsv |-> chk.tsv, unsaved |-> chk.unsaved,
          ok |-> FALSE, msg |-> "cancelled"]
    ELSE IF ~opens
    THEN [em |-> _cleanup_previous_video(em), cap |-> "unopened", index |-> current,
          csv |-> chk.csv, tsv |-> chk.tsv, unsaved |-> FALSE,
          ok |-> FALSE, msg |-> "Error opening video"]
    ELSE [em |-> _load_associated_data(_cleanup_previous_video(em), c, t),
          cap |-> "opened", index |-> index,
          csv |-> c, tsv |-> t, unsaved |-> FALSE,
          ok |-> TRUE, msg |-> "loaded"]

(* ------------------------------ playback ------------------------------- *)
\* VideoManager.__init__: the playback fields, the timer (not running) and
\* the number of connections of its timeout signal
NewVideoManager ==
    [current_frame |-> 0, total_frames |-> 0, playing |-> FALSE,
     timer_active |-> FALSE, connections |-> 0]

\* VideoManager.next_frame: the fields after the call and what it returns
video_manager_next_frame(vm) ==
    IF vm.current_frame < vm.total_frames - 1
    THEN [vm |-> [vm EXCEPT !.current_frame = @ + 1], ret |-> TRUE]
    ELSE [vm |-> vm, ret |-> FALSE]

\* VideoManager.prev_frame
video_manager_prev_frame(vm) ==
    IF vm.current_frame > 0
    THEN [vm |-> [vm EXCEPT !.current_frame = @ - 1], ret |-> TRUE]
    ELSE [vm |-> vm, ret |-> FALSE]

\* VideoManager.toggle_playback
toggle_playback(vm) == [vm EXCEPT !.playing = ~@]

\* VideoManager.start_playback: one more connection of the callback to
\* timer.timeout, and the timer started
start_playback(vm, video_cap) ==
    IF vm.playing /\ video_cap # "None"
    THEN [vm EXCEPT !.connections = @ + 1, !.timer_active = TRUE]
    ELSE vm

\* VideoManager.stop_playback
stop_playback(vm) == [vm EXCEPT !.timer_active = FALSE, !.playing = FALSE]

\* VideoAnnotator.toggle_play
toggle_play(vm, video_cap) ==
    IF video_cap = "None" THEN vm
    ELSE IF toggle_playback(vm).playing
    THEN start_playback(toggle_playback(vm), video_cap)
    ELSE stop_playback(toggle_playback(vm))

\* VideoAnnotator.next_frame that never stops the playback
next_frame_keeps_playing(vm, video_cap) ==
    video_manager_next_frame(vm).vm

\* VideoAnnotator.next_frame: a step forward, or the playback toggled off
\* when there is no frame to step to
next_frame(vm, video_cap) ==
    IF video_manager_next_frame(vm).ret THEN video_manager_next_frame(vm).vm
    ELSE IF vm.playing THEN toggle_play(vm, video_cap)
    ELSE vm

\* VideoAnnotator.prev_frame
prev_frame(vm) == video_manager_prev_frame(vm).vm

\* one timeout of the timer: next_frame runs once for each of the n
\* connections start_playback made
RECURSIVE timeout(_, _, _)
timeout(vm, video_cap, n) ==
    IF n = 0 THEN vm
    ELSE timeout(next_frame(vm, video_cap), video_cap, n - 1)

(* ------------------------------ actions -------------------------------- *)
\* self.has_unsaved_changes after the handler of the window that made the
\* call: create_event sets it whatever the call returned, the marks and the
\* deletion set it when the call succeeded, undo_action recomputes it
unsaved_after(op, r) ==
    IF op = "create_event" THEN TRUE
    ELSE IF op \in {"mark_start", "mark_end", "delete_selected_event"}
    THEN (IF r.ok THEN TRUE ELSE has_unsaved_changes)
    ELSE IF op = "undo"
    THEN (IF r.ok THEN Len(r.events) > 0 ELSE has_unsaved_changes)
    ELSE has_unsaved_changes

\* the manager's fields after a call, and the record of the call: its name,
\* argument and result, the event the message names, the value returned by a
\* lookup, and the manager and the file before it
Apply(op, arg, r) ==
    /\ events' = r.events
    /\ selected_event' = r.selected_event
    /\ event_history' = r.event_history
    /\ last' = [op |-> op, arg |-> arg, ok |-> r.ok, msg |-> r.msg,
                named |-> IF "named" \in DOMAIN r THEN r.named ELSE << >>,
                ret |-> IF "ret" \in DOMAIN r THEN r.ret ELSE None,
                pre |-> EM, pre_file |-> csv_file]
    /\ prev' = last
    /\ fuel' = fuel - 1
    /\ has_unsaved_changes' = unsaved_after(op, r)
    /\ UNCHANGED << metadata, cap, current_video_index, marker_file,
                    video_manager, original_event_names, events_list >>

\* VideoAnnotator.create_event returns before the call when no video is loaded
CreateEvent ==
    /\ fuel > 0
    /\ cap # "None"
    /\ \E t \in get_event_types : Apply("create_event", t, create_event(EM, t))
    /\ UNCHANGED << csv_file, saved_events >>

\* the index is the row of the clicked item of the events list
SelectEvent ==
    /\ fuel > 0
    /\ \E i \in 0..(Len(events) - 1) :
           Apply("select_event", <<i>>, select_event(EM, i))
    /\ UNCHANGED << csv_file, saved_events >>

MarkStart ==
    /\ fuel > 0
    /\ \E f \in Frames : Apply("mark_start", <<f>>, mark_start(EM, f))
    /\ UNCHANGED << csv_file, saved_events >>

MarkEnd ==
    /\ fuel > 0
    /\ \E f \in Frames : Apply("mark_end", <<f>>, mark_end(EM, f))
    /\ UNCHANGED << csv_file, saved_events >>

DeleteSelectedEvent ==
    /\ fuel > 0
    /\ Apply("delete_selected_event", << >>, delete_selected_event(EM))
    /\ UNCHANGED << csv_file, saved_events >>

Undo ==
    /\ fuel > 0
    /\ Apply("undo", << >>, undo(EM))
    /\ UNCHANGED << csv_file, saved_events >>

Clear ==
    /\ fuel > 0
    /\ Apply("clear", << >>, clear(EM))
    /\ UNCHANGED << csv_file, saved_events >>

LoadFromCsv ==
    /\ fuel > 0
    /\ Apply("load_from_csv", << >>, load_from_csv(EM, csv_file))
    /\ UNCHANGED << csv_file, saved_events >>

\* save_to_csv leaves the manager's fields alone
SaveToCsv ==
    /\ fuel > 0
    /\ LET r == save_to_csv(EM, metadata, csv_file)
       IN  /\ Apply("save_to_csv", << >>,
                    [events |-> events, selected_event |-> selected_event,
                     event_history |-> event_history, ok |-> r.ok, msg |-> r.msg,
                     named |-> r.named])
           /\ csv_file' = r.file
           /\ saved_events' = IF r.ok THEN events ELSE saved_events

\* save_marker_intervals returns nothing and leaves the manager's fields alone
SaveMarkerIntervals ==
    /\ fuel > 0
    /\ marker_file' = save_marker_intervals(events, marker_file)
    /\ last' = [op |-> "save_marker_intervals", arg |-> << >>, ok |-> TRUE,
                msg |-> "", named |-> << >>, ret |-> None, pre |-> EM,
                pre_file |-> csv_file]
    /\ prev' = last
    /\ fuel' = fuel - 1
    /\ UNCHANGED << events, selected_event, event_history, metadata, csv_file,
                    saved_events, has_unsaved_changes, cap, current_video_index,
                    video_manager, original_event_names, events_list >>

\* jump_to_event for any index, the indexes next to the list included
JumpToEvent ==
    /\ fuel > 0
    /\ \E index \in (-1)..Len(events), use_end \in BOOLEAN :
           Apply("jump_to_event", <<index, use_end>>,
                 jump_to_event(EM, index, use_end))
    /\ UNCHANGED << csv_file, saved_events >>

\* VideoDisplay.render_frame, once a frame was read, asking whether the frame
\* on display lies in an event; the frame is the one the video is at
CheckFrameInEvent ==
    /\ fuel > 0
    /\ cap = "opened"
    /\ \E f \in Frames :
           LET r == check_frame_in_event(events, f)
           IN  Apply("check_frame_in_event", <<f>>,
                     [events |-> events, selected_event |-> selected_event,
                      event_history |-> event_history,
                      ok |-> r.in_event, msg |-> "", named |-> r.name])
    /\ UNCHANGED << csv_file, saved_events >>

\* MetadataManager._initialize_fields: every field of the schema is ""
EmptyMetadata == [f \in MetadataSchema |-> << >>]

\* no file at the path
NoFile == [exists |-> FALSE, header |-> << >>, rows |-> << >>]

NoCall == [op |-> "init", arg |-> << >>, ok |-> TRUE, msg |-> "", named |-> << >>,
           ret |-> None, pre |-> NewManager, pre_file |-> NoFile]

Init ==
    /\ events = NewManager.events
    /\ selected_event = NewManager.selected_event
    /\ event_history = NewManager.event_history
    /\ last = NoCall
    /\ prev = NoCall
    /\ fuel = MaxOps
    /\ metadata = EmptyMetadata
    /\ csv_file = NoFile
    /\ saved_events = << >>
    /\ has_unsaved_changes = FALSE
    /\ cap = "opened"
    /\ current_video_index = 0
    /\ marker_file = NoFile
    /\ video_manager = NewVideoManager
    /\ original_event_names = << >>
    /\ events_list = << >>

Next ==
    \/ CreateEvent
    \/ SelectEvent
    \/ MarkStart
    \/ MarkEnd
    \/ DeleteSelectedEvent
    \/ Undo

Spec == Init /\ [][Next]_vars


(* ------------------- a manager with a long history --------------------- *)
\* the fields of a call's result, without the returned pair
Fields(r) == [events |-> r.events, selected_event |-> r.selected_event,
              event_history |-> r.event_history]

\* the manager after n further mark_start calls, at frames 0, 1, .., 0, 1, ..
RECURSIVE Marked(_, _)
Marked(em, n) ==
    IF n = 0 THEN em
    ELSE Fields(mark_start(Marked(em, n - 1), n % (MaxFrame + 1)))

\* create_event(t) on a new manager followed by n mark_start calls
Filled(t, n) == Marked(Fields(create_event(NewManager, t)), n)

\* runs that start from a new manager or from one whose history holds
\* HistoryLimit - 1 or HistoryLimit snapshots (with and without an eviction)
InitFull ==
    /\ \E t \in get_event_types :
       \E n \in {0, HistoryLimit - 2, HistoryLimit - 1, HistoryLimit} :
           LET em == IF n = 0 THEN NewManager ELSE Filled(t, n)
           IN  /\ events = em.events
               /\ selected_event = em.selected_event
               /\ event_history = em.event_history
    /\ last = NoCall
    /\ prev = NoCall
    /\ fuel = MaxFullOps
    /\ metadata = EmptyMetadata
    /\ csv_file = NoFile
    /\ saved_events = << >>
    /\ has_unsaved_changes = (events # << >>)
    /\ cap = "opened"
    /\ current_video_index = 0
    /\ marker_file = NoFile
    /\ video_manager = NewVideoManager
    /\ original_event_names = << >>
    /\ events_list = << >>

SpecFull == InitFull /\ [][Next]_vars

(* ---------------------- loading files found on disk -------------------- *)
\* headers of the older layouts named by the format list of the specification
HSimple == <<"Event", "Start Frame", "End Frame">>
HSegment == <<"Segment", "Start Frame", "End Frame", "Type">>
\* a header of no layout
HUnknown == <<"foo", "bar">>

S_Event1 == <<"E", "v", "e", "n", "t", " ", "1">>
S_P1 == <<"P", "1">>
S_rec == <<"r", "e", "c">>
S_M1 == <<"M", "1">>

\* data rows of the files, per layout; the last universal row lacks its frame cells
UniversalRows ==
    { << S_P1, S_rec, n, st, en, S_NA >> :
          n \in {<<"A">>, <<"B">>, << >>},
          st \in {<<"7">>, S_NA, <<"x">>},
          en \in {<<"1", "2">>, S_MinusOne} }
    \cup { << S_P1, S_rec, <<"A">> >> }

MuistiRows ==
    { << S_P1, S_rec, <<"c">>, <<"s">>, <<"i">>, mon, ty, st, <<"7">>, <<"1">> >> :
          mon \in {S_M1, << >>},
          ty \in {S_approach, S_view, S_NA, <<"x">>},
          st \in {<<"3">>, <<"x">>} }

SimpleRows == { << S_Event1, <<"1", "0">>, <<"2", "0">> >> }
SegmentRows == { << <<"1">>, <<"1", "0">>, <<"2", "0">>, <<"x">> >> }
UnknownRows == { << <<"1">>, <<"2">> >> }

FilesOf(header, rowset) ==
    { [exists |-> TRUE, header |-> header, rows |-> rows] :
          rows \in UNION { [1..n -> rowset] : n \in 0..MaxRows } }

\* the events.csv a recording directory may hold when it is opened
InputFiles ==
    {NoFile} \cup FilesOf(HUniversal, UniversalRows) \cup FilesOf(HMuisti, MuistiRows)
             \cup FilesOf(HSimple, SimpleRows) \cup FilesOf(HSegment, SegmentRows)
             \cup FilesOf(HUnknown, UnknownRows)

InitLoad ==
    /\ events = NewManager.events
    /\ selected_event = NewManager.selected_event
    /\ event_history = NewManager.event_history
    /\ last = NoCall
    /\ prev = NoCall
    /\ fuel = MaxLoadOps
    /\ metadata = EmptyMetadata
    /\ csv_file \in InputFiles
    /\ saved_events = << >>
    /\ has_unsaved_changes = FALSE
    /\ cap = "opened"
    /\ current_video_index = 0
    /\ marker_file = NoFile
    /\ video_manager = NewVideoManager
    /\ original_event_names = << >>
    /\ events_list = << >>

NextLoad ==
    \/ LoadFromCsv
    \/ CreateEvent
    \/ SelectEvent
    \/ DeleteSelectedEvent

SpecLoad == InitLoad /\ [][NextLoad]_vars

(* ----------------------- saving and loading again ---------------------- *)
\* frames events are marked at in the save/load runs: one and two digits
FrameSamples == {0, 12}

\* names of the events of those runs: the configured types and the empty
\* name a type is left with when the project dialog renames it to ""
EventNameSamples == get_event_types \cup { << >> }

\* the manager after creating and marking the events of the list evs in order
RECURSIVE Built(_, _)
Built(em, evs) ==
    IF Len(evs) = 0 THEN em
    ELSE LET e == Head(evs)
             a == Fields(create_event(em, e.name))
             b == IF e.start # Unset THEN Fields(mark_start(a, e.start)) ELSE a
             c == IF e.end # Unset THEN Fields(mark_end(b, e.end)) ELSE b
         IN  Built(c, Tail(evs))

\* events a session of create_event, mark_start and mark_end calls can hold
EventValues ==
    { e \in [name : EventNameSamples,
             start : FrameSamples \cup {Unset},
             end : FrameSamples \cup {Unset}] :
          e.start = Unset \/ e.end = Unset \/ e.start <= e.end }

EventLists ==
    { evs \in UNION { [1..n -> EventValues] : n \in 0..MaxEvents } :
          \A i, j \in DOMAIN evs : i # j => evs[i].name # evs[j].name }

\* metadata as filled in by the annotator: complete, one required field
\* empty, and the default schema, which has no condition or series_title
MetadataSamples ==
    { [f \in MetadataSchema |-> S_P1],
      [f \in MetadataSchema |-> IF f = "condition" THEN << >> ELSE S_P1],
      [f \in {"participant_id", "file_name"} |-> S_P1] }

InitRoundTrip ==
    /\ \E evs \in EventLists :
           LET em == Built(NewManager, evs)
           IN  /\ events = em.events
               /\ selected_event = em.selected_event
               /\ event_history = em.event_history
    /\ last = NoCall
    /\ prev = NoCall
    /\ fuel = MaxRoundTripOps
    /\ metadata \in MetadataSamples
    /\ csv_file = NoFile
    /\ saved_events = << >>
    /\ has_unsaved_changes = (events # << >>)
    /\ cap = "opened"
    /\ current_video_index = 0
    /\ marker_file = NoFile
    /\ video_manager = NewVideoManager
    /\ original_event_names = << >>
    /\ events_list = << >>

NextRoundTrip ==
    \/ SaveToCsv
    \/ Clear
    \/ LoadFromCsv

SpecRoundTrip == InitRoundTrip /\ [][NextRoundTrip]_vars

(* ---------------------- the frame display running ---------------------- *)
InitDisplay ==
    /\ events = NewManager.events
    /\ selected_event = NewManager.selected_event
    /\ event_history = NewManager.event_history
    /\ last = NoCall
    /\ prev = NoCall
    /\ fuel = MaxDisplayOps
    /\ metadata = EmptyMetadata
    /\ csv_file = NoFile
    /\ saved_events = << >>
    /\ has_unsaved_changes = FALSE
    /\ cap = "opened"
    /\ current_video_index = 0
    /\ marker_file = NoFile
    /\ video_manager = NewVideoManager
    /\ original_event_names = << >>
    /\ events_list = << >>

NextDisplay ==
    \/ CreateEvent
    \/ SelectEvent
    \/ MarkStart
    \/ MarkEnd
    \/ CheckFrameInEvent
    \/ JumpToEvent

SpecDisplay == InitDisplay /\ [][NextDisplay]_vars

(* ------------------------- switching recordings ------------------------ *)
\* indexes of self.video_paths: a project of two recordings
VideoIndexes == {0, 1}

\* buttons of the question check_unsaved_changes asks
Replies == {"Save", "Discard", "Cancel"}

\* the events.csv the directory of a recording may hold: none, one row, and
\* a good row followed by one whose start frame is no number
RecordingCsvFiles ==
    { NoFile,
      [exists |-> TRUE, header |-> HUniversal,
       rows |-> << << S_P1, S_rec, <<"A">>, <<"7">>, <<"1", "2">>, S_NA >> >>],
      [exists |-> TRUE, header |-> HUniversal,
       rows |-> << << S_P1, S_rec, <<"A">>, <<"7">>, <<"1", "2">>, S_NA >>,
                   << S_P1, S_rec, <<"B">>, <<"x">>, <<"1", "2">>, S_NA >> >>] }

\* the markerInterval.tsv it may hold: none, and a good row followed by one
\* whose start frame is no number
RecordingTsvFiles ==
    { NoFile,
      [exists |-> TRUE, header |-> HMarker,
       rows |-> << << <<"3">>, <<"7">> >>, << <<"x">>, <<"9">> >> >>] }

\* the window and the record of the call after load_video(index) came to w
AfterLoadVideo(index, reply, chk, w) ==
    /\ events' = w.em.events
    /\ selected_event' = w.em.selected_event
    /\ event_history' = w.em.event_history
    /\ cap' = w.cap
    /\ current_video_index' = w.index
    /\ csv_file' = w.csv
    /\ marker_file' = w.tsv
    /\ has_unsaved_changes' = w.unsaved
    /\ last' = [op |-> "load_video", arg |-> <<index, reply>>, ok |-> w.ok,
                msg |-> w.msg, named |-> << >>, ret |-> None, pre |-> EM,
                pre_file |-> csv_file, asked |-> has_unsaved_changes,
                saved |-> ~chk.unsaved, current |-> current_video_index]
    /\ prev' = last
    /\ fuel' = fuel - 1
    /\ UNCHANGED << metadata, saved_events, video_manager,
                    original_event_names, events_list >>

\* VideoAnnotator.load_video(index): the reply to the question (asked only
\* with unsaved changes), whether the capture opens, and the files of a
\* directory other than the current one are inputs; the current directory
\* holds csv_file and marker_file as the save of the Save button left them
LoadVideo ==
    /\ fuel > 0
    /\ \E index \in VideoIndexes, opens \in BOOLEAN,
          reply \in (IF has_unsaved_changes THEN Replies ELSE {"Discard"}) :
       \E chk \in { check_unsaved_changes(reply, EM, cap, current_video_index,
                                          csv_file, marker_file,
                                          has_unsaved_changes) } :
       \E c \in (IF index = current_video_index THEN {chk.csv}
                 ELSE RecordingCsvFiles),
          t \in (IF index = current_video_index THEN {chk.tsv}
                 ELSE RecordingTsvFiles) :
           AfterLoadVideo(index, reply, chk,
                          load_video(EM, cap, current_video_index, index, opens,
                                     chk, c, t))

(* --------------------------- project dialog --------------------------- *)
\* the names of the items of the list, in the order of the list
current_events(list) == [i \in DOMAIN list |-> list[i].name]

\* the names a sequence holds
NamesOf(names) == { names[i] : i \in DOMAIN names }

\* the renames dict of _analyze_event_changes: with as many items as there
\* were names, a name that differs from the item at its position maps to
\* that item's name, the last such position winning
PositionalRenames(orig, cur) ==
    IF Len(orig) # Len(cur) THEN [o \in {} |-> << >>]
    ELSE [o \in { orig[i] : i \in { k \in DOMAIN orig : orig[k] # cur[k] } } |->
             cur[CHOOSE i \in DOMAIN orig :
                     /\ orig[i] = o
                     /\ orig[i] # cur[i]
                     /\ \A j \in DOMAIN orig :
                            (orig[j] = o /\ orig[j] # cur[j]) => j <= i]]

\* NewProjectDialog._analyze_event_changes: renames, deleted and added
_analyze_event_changes(orig, list) ==
    LET renames == PositionalRenames(orig, current_events(list))
        original_set == NamesOf(orig) \ DOMAIN renames
        current_set == NamesOf(current_events(list)) \
                           { renames[o] : o \in DOMAIN renames }
    IN  [renames |-> renames,
         deleted |-> original_set \ current_set,
         added |-> current_set \ original_set]

\* the name_mapping of _update_existing_csv_files: the renames, and None for
\* each deleted name
name_mapping(changes) ==
    [n \in DOMAIN changes.renames \cup changes.deleted |->
        IF n \in changes.deleted THEN PyNone ELSE changes.renames[n]]

\* the row with its cell of column col replaced by val
SetCell(header, row, col, val) ==
    [k \in DOMAIN row |-> IF header[k] = col THEN val ELSE row[k]]

\* the row loop of _update_csv_file: a row whose event_name maps to None is
\* dropped, one whose event_name maps to a name is relabelled
RECURSIVE UpdateRows(_, _, _)
UpdateRows(header, rows, mapping) ==
    IF Len(rows) = 0 THEN << >>
    ELSE LET row == Head(rows)
             name == Get(header, row, "event_name", PyNone)
         IN  IF InHeader("event_name", header) /\ name \in DOMAIN mapping
             THEN (IF mapping[name] = PyNone
                   THEN UpdateRows(header, Tail(rows), mapping)
                   ELSE << SetCell(header, row, "event_name", mapping[name]) >>
                            \o UpdateRows(header, Tail(rows), mapping))
             ELSE << row >> \o UpdateRows(header, Tail(rows), mapping)

\* NewProjectDialog._update_csv_file: the file after the call
_update_csv_file(file, mapping) ==
    IF ~file.exists \/ Len(file.header) = 0 THEN file
    ELSE [file EXCEPT !.rows = UpdateRows(file.header, file.rows, mapping)]

\* NewProjectDialog._update_existing_csv_files, for the events.csv of one
\* recording
_update_existing_csv_files(file, orig, list) ==
    _update_csv_file(file, name_mapping(_analyze_event_changes(orig, list)))

\* NewProjectDialog._config_affects_csv_data
_config_affects_csv_data(orig, list) ==
    \/ Len(orig) # Len(list)
    \/ \E i \in DOMAIN orig : orig[i] # list[i].name

\* the names typed into the dialog
TypedNames == { <<"A">>, <<"B">>, <<"C">> }

\* the record of a call made in the dialog; origin, the position an item had
\* in the list when the dialog opened (0 for an added item), is kept with
\* each item for the claims only
DialogCall(op, arg, list, file, changes, ran) ==
    /\ events_list' = list
    /\ csv_file' = file
    /\ last' = [op |-> op, arg |-> arg, ok |-> TRUE, msg |-> "", named |-> << >>,
                ret |-> None, pre |-> EM, pre_file |-> csv_file,
                pre_list |-> events_list, changes |-> changes, ran |-> ran]
    /\ prev' = last
    /\ UNCHANGED << events, selected_event, event_history, metadata,
                    saved_events, has_unsaved_changes, cap, current_video_index,
                    marker_file, video_manager, original_event_names >>

\* nothing analysed: the value of the changes field outside save_project
NoChanges == [renames |-> [o \in {} |-> << >>], deleted |-> {}, added |-> {}]

\* _edit_or_add_event on an item of the list: the name typed replaces the
\* item's name when it differs
EditEvent ==
    /\ fuel > 0
    /\ fuel' = fuel - 1
    /\ \E i \in DOMAIN events_list, name \in TypedNames :
           DialogCall("edit_event", <<i, name>>,
                      IF name # events_list[i].name
                      THEN [events_list EXCEPT ![i].name = name]
                      ELSE events_list,
                      csv_file, NoChanges, FALSE)

\* _edit_or_add_event without an item: a new item at the end of the list
AddEvent ==
    /\ fuel > 0
    /\ fuel' = fuel - 1
    /\ \E name \in TypedNames :
           DialogCall("add_event", <<name>>,
                      Append(events_list, [name |-> name, origin |-> 0]),
                      csv_file, NoChanges, FALSE)

\* _delete_event_item
DeleteEventItem ==
    /\ fuel > 0
    /\ fuel' = fuel - 1
    /\ \E i \in DOMAIN events_list :
           DialogCall("delete_event_item", <<i>>,
                      [k \in 1..(Len(events_list) - 1) |->
                          IF k < i THEN events_list[k] ELSE events_list[k + 1]],
                      csv_file, NoChanges, FALSE)

\* save_project of a dialog that edits a project: with an empty list it
\* returns; otherwise, when the names changed and the user answers Yes,
\* events.csv is updated, and the dialog closes
SaveProject ==
    /\ fuel > 0
    /\ \E reply \in {"Yes", "No"} :
           IF Len(events_list) = 0
           THEN /\ fuel' = fuel - 1
                /\ DialogCall("save_project", <<reply>>, events_list, csv_file,
                              NoChanges, FALSE)
           ELSE /\ fuel' = 0
                /\ IF _config_affects_csv_data(original_event_names, events_list)
                      /\ reply = "Yes"
                   THEN DialogCall("save_project", <<reply>>, events_list,
                                   _update_existing_csv_files(
                                       csv_file, original_event_names, events_list),
                                   _analyze_event_changes(original_event_names,
                                                          events_list),
                                   TRUE)
                   ELSE DialogCall("save_project", <<reply>>, events_list,
                                   csv_file, NoChanges, FALSE)

\* the event types a project may hold when the dialog opens
OriginalNames == { << <<"A">> >>, << <<"A">>, <<"B">> >> }

\* the events.csv of a recording with one row for each event type of names,
\* the i-th starting at frame i
RowsOfTypes(names) ==
    [exists |-> TRUE, header |-> HUniversal,
     rows |-> [i \in DOMAIN names |->
                  << S_P1, S_rec, names[i], NatToStr(i), <<"1", "2">>, S_NA >>]]

\* _load_existing_project: the dialog opened on a project
InitEdit ==
    /\ events = NewManager.events
    /\ selected_event = NewManager.selected_event
    /\ event_history = NewManager.event_history
    /\ last = NoCall
    /\ prev = NoCall
    /\ fuel = MaxEditOps
    /\ metadata = EmptyMetadata
    /\ saved_events = << >>
    /\ has_unsaved_changes = FALSE
    /\ cap = "None"
    /\ current_video_index = -1
    /\ marker_file = NoFile
    /\ video_manager = NewVideoManager
    /\ \E names \in OriginalNames :
           /\ original_event_names = names
           /\ events_list = [i \in DOMAIN names |->
                                [name |-> names[i], origin |-> i]]
           /\ csv_file = RowsOfTypes(names)

NextEdit ==
    \/ EditEvent
    \/ AddEvent
    \/ DeleteEventItem
    \/ SaveProject

SpecEdit == InitEdit /\ [][NextEdit]_vars

\* the record of a call that acts on the playback: the VideoManager's fields
\* before it are kept in pre_vm
PlaybackCall(op, vm) ==
    /\ video_manager' = vm
    /\ last' = [op |-> op, arg |-> << >>, ok |-> TRUE, msg |-> "", named |-> << >>,
                ret |-> None, pre |-> EM, pre_file |-> csv_file,
                pre_vm |-> video_manager]
    /\ prev' = last
    /\ UNCHANGED << events, selected_event, event_history, metadata, csv_file,
                    saved_events, has_unsaved_changes, cap, current_video_index,
                    marker_file, original_event_names, events_list >>

\* the Play/Pause button or the space key
TogglePlay ==
    /\ fuel > 0
    /\ fuel' = fuel - 1
    /\ PlaybackCall("toggle_play", toggle_play(video_manager, cap))

\* the Next Frame button or the right key
NextFrame ==
    /\ fuel > 0
    /\ fuel' = fuel - 1
    /\ PlaybackCall("next_frame", next_frame(video_manager, cap))

\* the Previous Frame button or the left key
PrevFrame ==
    /\ fuel > 0
    /\ fuel' = fuel - 1
    /\ PlaybackCall("prev_frame", prev_frame(video_manager))

\* the running timer fires: every connected callback runs
Timeout ==
    /\ video_manager.timer_active
    /\ fuel' = fuel
    /\ PlaybackCall("timeout",
                    timeout(video_manager, cap, video_manager.connections))

\* a video of 0..MaxTotalFrames frames was loaded and stands at frame 0
InitPlay ==
    /\ events = NewManager.events
    /\ selected_event = NewManager.selected_event
    /\ event_history = NewManager.event_history
    /\ last = NoCall
    /\ prev = NoCall
    /\ fuel = MaxPlayOps
    /\ metadata = EmptyMetadata
    /\ csv_file = NoFile
    /\ saved_events = << >>
    /\ has_unsaved_changes = FALSE
    /\ cap = "opened"
    /\ current_video_index = 0
    /\ marker_file = NoFile
    /\ \E n \in 0..MaxTotalFrames :
           video_manager = [NewVideoManager EXCEPT !.total_frames = n]
    /\ original_event_names = << >>
    /\ events_list = << >>

NextPlay ==
    \/ TogglePlay
    \/ NextFrame
    \/ PrevFrame
    \/ Timeout

SpecPlay == InitPlay /\ [][NextPlay]_vars

\* the timer keeps firing while it runs
SpecPlayFair == InitPlay /\ [][NextPlay]_vars /\ WF_vars(Timeout)

\* the window after construction: no video loaded
InitSwitch ==
    /\ events = NewManager.events
    /\ selected_event = NewManager.selected_event
    /\ event_history = NewManager.event_history
    /\ last = NoCall
    /\ prev = NoCall
    /\ fuel = MaxSwitchOps
    /\ metadata = EmptyMetadata
    /\ csv_file = NoFile
    /\ saved_events = << >>
    /\ has_unsaved_changes = FALSE
    /\ cap = "None"
    /\ current_video_index = -1
    /\ marker_file = NoFile
    /\ video_manager = NewVideoManager
    /\ original_event_names = << >>
    /\ events_list = << >>

NextSwitch ==
    \/ LoadVideo
    \/ CreateEvent
    \/ MarkStart
    \/ DeleteSelectedEvent
    \/ Undo

SpecSwitch == InitSwitch /\ [][NextSwitch]_vars

(* ------------------------- saving over a file -------------------------- *)
\* an events.csv written by an earlier save of the recording
OldFile ==
    [exists |-> TRUE, header |-> HUniversal,
     rows |-> << << S_P1, S_rec, <<"B">>, <<"7">>, <<"1", "2">>, S_NA >> >>]

InitSave ==
    /\ \E evs \in EventLists :
           LET em == Built(NewManager, evs)
           IN  /\ events = em.events
               /\ selected_event = em.selected_event
               /\ event_history = em.event_history
    /\ last = NoCall
    /\ prev = NoCall
    /\ fuel = MaxSaveOps
    /\ metadata \in MetadataSamples
    /\ csv_file \in {NoFile, OldFile}
    /\ saved_events = << >>
    /\ has_unsaved_changes = (events # << >>)
    /\ cap = "opened"
    /\ current_video_index = 0
    /\ marker_file = NoFile
    /\ video_manager = NewVideoManager
    /\ original_event_names = << >>
    /\ events_list = << >>

NextSave ==
    \/ SaveToCsv
    \/ SaveMarkerIntervals
    \/ DeleteSelectedEvent

SpecSave == InitSave /\ [][NextSave]_vars

(* ------------------------------ claims --------------------------------- *)
Mutators == {"create_event", "mark_start", "mark_end", "delete_selected_event"}

Ordered(e) == e.start = Unset \/ e.end = Unset \/ e.start <= e.end

\* C1: after any sequence of create_event, select_event, mark_start,
\* mark_end, delete_selected_event and undo calls on an empty manager, every
\* event of the list has start unset, end unset, or start <= end.
C1_BoundsOrdered == \A i \in DOMAIN events : Ordered(events[i])

\* a mark was rejected by the ordering guard and an event has both bounds set
C1_Witness ==
    /\ last.op \in {"mark_start", "mark_end"}
    /\ ~last.ok
    /\ last.msg \in {"start after end", "end before start"}
    /\ \E i \in DOMAIN events : events[i].start # Unset /\ events[i].end # Unset

\* C2: undo after one successful mutating call restores the event list, by
\* value, to the list present immediately before that call, also when the
\* history already held HistoryLimit snapshots before the call.
C2_UndoRestoresList ==
    (last.op = "undo" /\ prev.op \in Mutators /\ prev.ok)
        => (last.ok /\ events = prev.pre.events)

\* an undo directly after a mutating call that found the history full
C2_Witness ==
    /\ last.op = "undo"
    /\ prev.op \in Mutators
    /\ prev.ok
    /\ Len(prev.pre.event_history) = HistoryLimit
    /\ events # last.pre.events

\* delete_selected_event on a list of one event empties it and clears the selection
DeletedOnlyEvent ==
    (last.op = "delete_selected_event" /\ last.ok /\ Len(last.pre.events) = 1)
        => (events = << >> /\ selected_event = None)

\* an undo directly after the deletion of the only event
UndoAfterDeleteOnly ==
    /\ last.op = "undo"
    /\ prev.op = "delete_selected_event"
    /\ prev.ok
    /\ Len(prev.pre.events) = 1

\* C3 as stated: deleting the only event leaves an empty list and no
\* selection, and the undo that follows restores the event and selects index 0.
C3_UndoSelectsZero ==
    /\ DeletedOnlyEvent
    /\ UndoAfterDeleteOnly
           => (last.ok /\ events = prev.pre.events /\ selected_event = 0)

\* C3 amended: deleting the only event leaves an empty list and no
\* selection, and the undo that follows restores the event and leaves the
\* selection none, because undo keeps the selection it finds.
C3_UndoKeepsNoSelection ==
    /\ DeletedOnlyEvent
    /\ UndoAfterDeleteOnly
           => (last.ok /\ events = prev.pre.events /\ Len(events) = 1
               /\ selected_event = None)

C3_Witness ==
    /\ UndoAfterDeleteOnly
    /\ prev.pre.selected_event = 0
    /\ Len(events) = 1

\* number of events of the list evs named n
CountNamed(evs, n) == Cardinality({i \in DOMAIN evs : evs[i].name = n})

\* C4: create_event(X) for a non-repeatable X already in the list returns
\* (False, message), changes neither the list nor the history, leaves exactly
\* one event named X and selects the existing event named X.
C4_DuplicateRejected ==
    (/\ last.op = "create_event"
     /\ ~is_marker_interval_event(last.arg)
     /\ CountNamed(last.pre.events, last.arg) > 0)
        => (/\ ~last.ok
            /\ last.msg = "already exists"
            /\ events = last.pre.events
            /\ event_history = last.pre.event_history
            /\ CountNamed(events, last.arg) = 1
            /\ selected_event # None
            /\ events[selected_event + 1].name = last.arg)

\* a rejected duplicate that moved the selection from another event
C4_Witness ==
    /\ last.op = "create_event"
    /\ ~last.ok
    /\ ~is_marker_interval_event(last.arg)
    /\ last.pre.selected_event # selected_event
    /\ event_history # << >>

\* C5 as stated: create_event(T) for the marker-interval type T succeeds
\* although an event of type T exists: one event is appended after the
\* existing ones under a name no other event has, one snapshot is pushed and
\* the new event is selected.
C5_MarkerTypeRepeats ==
    (/\ last.op = "create_event"
     /\ is_marker_interval_event(last.arg)
     /\ \E i \in DOMAIN last.pre.events :
            is_marker_interval_event(last.pre.events[i].name))
        => (/\ last.ok
            /\ Len(events) = Len(last.pre.events) + 1
            /\ SubSeq(events, 1, Len(last.pre.events)) = last.pre.events
            /\ CountNamed(events, events[Len(events)].name) = 1
            /\ event_history = save_state(last.pre.event_history, last.pre.events)
            /\ selected_event = Len(events) - 1)

\* the conditions under which a mark call must fail
MarkMustFail(c) ==
    \/ c.pre.selected_event = None
    \/ /\ c.pre.selected_event # None
       /\ LET e == c.pre.events[c.pre.selected_event + 1]
              f == c.arg[1]
          IN  \/ c.op = "mark_start" /\ e.end # Unset /\ f > e.end
              \/ c.op = "mark_end" /\ e.start # Unset /\ f < e.start

\* C6: a mark_start or mark_end call with no selection, or that would put
\* start after end, returns (False, message) and leaves the list, the
\* selection and the history as they were; no other mark call fails.
C6_RejectedMarkChangesNothing ==
    last.op \in {"mark_start", "mark_end"}
        => (/\ MarkMustFail(last) <=> ~last.ok
            /\ ~last.ok => (EM = last.pre /\ last.msg # ""))

\* a mark_start rejected by the ordering guard while the history is not empty
C6_Witness ==
    /\ last.op = "mark_start"
    /\ ~last.ok
    /\ last.msg = "start after end"
    /\ event_history # << >>

\* the load that was just made met a row whose frame cells cannot be parsed
LoadMetBadRow ==
    /\ last.op = "load_from_csv"
    /\ csv_file.exists
    /\ LoadRows(csv_file.header, csv_file.rows, << >>).raised

\* C7: if a row of the file fails to parse, load_from_csv returns
\* (False, message) and the event list is empty afterwards.
C7_FailedLoadLeavesNoEvents ==
    /\ LoadMetBadRow => ~last.ok
    /\ (last.op = "load_from_csv" /\ ~last.ok) => events = << >>

\* C8: load_from_csv of a file with header Event, Start Frame, End Frame
\* makes every data row an event named by the Event cell with the integer
\* cells as start and end.
C8_SimpleLayoutLoads ==
    (last.op = "load_from_csv" /\ csv_file.exists /\ csv_file.header = HSimple)
        => (/\ last.ok
            /\ Len(events) = Len(csv_file.rows)
            /\ \A i \in DOMAIN csv_file.rows :
                   /\ events[i].name = csv_file.rows[i][1]
                   /\ events[i].start = ParseInt(csv_file.rows[i][2]).val
                   /\ events[i].end = ParseInt(csv_file.rows[i][3]).val)

\* the header is of none of the layouts the loader is to accept
NoKnownLayout(header) ==
    /\ ~InHeader("event_name", header)
    /\ ~(InHeader("monitor_id", header) /\ InHeader("event_type", header))
    /\ header # HSimple
    /\ header # HSegment

\* C9: load_from_csv of a file whose header matches no known layout returns
\* failure with a message, never success.
C9_UnknownHeaderFails ==
    (last.op = "load_from_csv" /\ csv_file.exists /\ NoKnownLayout(csv_file.header))
        => (~last.ok /\ last.msg # "")

\* a load into a manager as constructed (or cleared) of the file a successful
\* save wrote from a list of non-marker events with both bounds set
LoadedSavedFile ==
    /\ last.op = "load_from_csv"
    /\ last.pre = NewManager
    /\ csv_file.exists
    /\ \A i \in DOMAIN saved_events :
           /\ ~is_marker_interval_event(saved_events[i].name)
           /\ saved_events[i].start # Unset
           /\ saved_events[i].end # Unset

\* C10 as stated: the list loaded from the saved file equals the saved list.
C10_RoundTripSameList == LoadedSavedFile => (last.ok /\ events = saved_events)

\* b holds the events of a, those with the smaller start first and those
\* with equal start in the order of a
SameEventsByStart(a, b) ==
    /\ Len(a) = Len(b)
    /\ \E p \in [DOMAIN a -> DOMAIN b] :
           /\ \A i, j \in DOMAIN a : i # j => p[i] # p[j]
           /\ \A i \in DOMAIN a : b[p[i]] = a[i]
           /\ \A i, j \in DOMAIN a :
                  (a[i].start < a[j].start \/ (a[i].start = a[j].start /\ i < j))
                      => p[i] < p[j]

AllNamed(evs) == \A i \in DOMAIN evs : evs[i].name # << >>

\* C10 amended: when every saved event has a non-empty name, the list loaded
\* from the saved file holds the saved events by name/start/end, ordered by
\* start frame ascending (equal starts in the saved order); it equals the
\* saved list when that was in start order.
C10_RoundTripSortedByStart ==
    (LoadedSavedFile /\ AllNamed(saved_events))
        => (last.ok /\ SameEventsByStart(saved_events, events))

\* a reload that returned two events in another order than they were saved
C10_Witness ==
    /\ LoadedSavedFile
    /\ prev.op = "clear"
    /\ Len(events) = 2
    /\ events # saved_events
    /\ AllNamed(saved_events)
    /\ \E i \in DOMAIN events : events[i].start = 12


\* an event save_to_csv refuses: not a marker interval, a bound unset
Incomplete(e) ==
    ~is_marker_interval_event(e.name) /\ (e.start = Unset \/ e.end = Unset)

HasIncomplete(evs) == \E i \in DOMAIN evs : Incomplete(evs[i])

FirstIncompleteName(evs) ==
    evs[CHOOSE i \in DOMAIN evs :
            Incomplete(evs[i]) /\ \A j \in 1..(i - 1) : ~Incomplete(evs[j])].name

\* every required field is in the mapping and not empty
MetadataFilled ==
    \A f \in {"participant_id", "condition", "series_title"} :
        f \in DOMAIN metadata /\ metadata[f] # << >>

\* C11: a save_to_csv call made while some non-marker-interval event lacks its
\* start or its end fails, leaves the file at csv_path as it was (no file is
\* created, an existing one is not touched), and its message names the first
\* incomplete event of the list.
C11_IncompleteEventNamed ==
    (last.op = "save_to_csv" /\ HasIncomplete(last.pre.events)) =>
        /\ ~last.ok
        /\ csv_file = last.pre_file
        /\ last.msg = "missing start or end time"
        /\ last.named = FirstIncompleteName(last.pre.events)

\* C11 (amended): a save_to_csv call made while some non-marker-interval
\* event lacks its start or its end fails and leaves the file at csv_path as
\* it was; when the metadata is complete, its message names the first
\* incomplete event of the list (with incomplete metadata the metadata check,
\* which runs first, supplies the message).
C11_IncompleteEventBlocksSave ==
    (last.op = "save_to_csv" /\ HasIncomplete(last.pre.events)) =>
        /\ ~last.ok
        /\ csv_file = last.pre_file
        /\ events = last.pre.events
        /\ MetadataFilled =>
               /\ last.msg = "missing start or end time"
               /\ last.named = FirstIncompleteName(last.pre.events)

\* a failed save over an existing file: the first event of the list is
\* complete, the second is not
C11_Witness ==
    /\ last.op = "save_to_csv"
    /\ MetadataFilled
    /\ Len(events) = 2
    /\ ~Incomplete(events[1])
    /\ ~is_marker_interval_event(events[1].name)
    /\ Incomplete(events[2])
    /\ last.pre_file = OldFile
    /\ last.named = events[2].name

\* C12: a save_to_csv call made while the metadata does not hold a non-empty
\* value for each of participant_id, condition and series_title, a field
\* missing from the mapping included, returns failure with a message and
\* leaves the file at csv_path as it was.
C12_IncompleteMetadataBlocksSave ==
    (last.op = "save_to_csv" /\ ~MetadataFilled) =>
        /\ ~last.ok
        /\ last.msg # ""
        /\ csv_file = last.pre_file

\* a save refused for a field the mapping lacks, with every event complete
C12_Witness ==
    /\ last.op = "save_to_csv"
    /\ ~last.ok
    /\ "condition" \notin DOMAIN metadata
    /\ events # << >>
    /\ ~HasIncomplete(events)
    /\ last.pre_file = OldFile

\* C13: after a successful save, the row of every event carries in its
\* duration column (end - start + 1) / fps rounded to one decimal (both bounds
\* of a written event are set, and fps is positive).
C13_DurationFromFrames ==
    (last.op = "save_to_csv" /\ last.ok) =>
        \A i \in DOMAIN events :
            ~is_marker_interval_event(events[i].name) =>
                \E k \in DOMAIN csv_file.rows :
                    /\ csv_file.rows[k][3] = events[i].name
                    /\ csv_file.rows[k][6] =
                           FloatToStr(calculate_duration(events[i].start,
                                                         events[i].end).tenths)

\* C14: a run of check_frame_in_event reports an event exactly when the frame
\* the video is at lies in [start, end] of an event with both bounds set (the
\* bounds being the frames the video was at when they were marked), and the
\* event it reports is such an event.
C14_ShownExactlyInside ==
    last.op = "check_frame_in_event" =>
        LET f == last.arg[1]
            inside(i) == /\ events[i].start # Unset
                         /\ events[i].end # Unset
                         /\ events[i].start <= f
                         /\ f <= events[i].end
        IN  /\ last.ok <=> \E i \in DOMAIN events : inside(i)
            /\ last.ok => \E i \in DOMAIN events :
                              inside(i) /\ events[i].name = last.named

\* the history after one snapshot of evs is pushed onto h
Pushed(h, evs) ==
    IF Len(h) < HistoryLimit THEN Append(h, evs) ELSE Append(Tail(h), evs)

\* C15: the history never holds more than 20 snapshots; a successful
\* create_event, mark_start, mark_end or delete_selected_event pushes exactly
\* one snapshot, the list before the call, and on a full history the oldest
\* snapshot is the one discarded.
C15_HistoryBounded ==
    /\ Len(event_history) <= HistoryLimit
    /\ (last.op \in Mutators /\ last.ok) =>
           event_history = Pushed(last.pre.event_history, last.pre.events)

\* a successful call made with 20 snapshots held: the oldest one is gone
C15_Witness ==
    /\ last.op \in Mutators
    /\ last.ok
    /\ Len(last.pre.event_history) = HistoryLimit
    /\ Len(event_history) = HistoryLimit
    /\ event_history[1] = last.pre.event_history[2]
    /\ event_history[1] # last.pre.event_history[1]

\* C16: undo() on an empty history fails and changes nothing; a successful
\* undo removes exactly the newest snapshot, so after an undo that consumed
\* the only snapshot the next undo fails and changes nothing.
C16_UndoConsumesOneSnapshot ==
    /\ last.op = "undo" =>
           IF last.pre.event_history = << >>
           THEN ~last.ok /\ EM = last.pre
           ELSE /\ last.ok
                /\ event_history = SubSeq(last.pre.event_history, 1,
                                           Len(last.pre.event_history) - 1)
    /\ (prev.op = "undo" /\ Len(prev.pre.event_history) <= 1 /\ last.op = "undo") =>
           ~last.ok /\ EM = last.pre

\* an undo that fails right after the undo that consumed the only snapshot
C16_Witness ==
    /\ prev.op = "undo"
    /\ prev.ok
    /\ Len(prev.pre.event_history) = 1
    /\ last.op = "undo"
    /\ ~last.ok

\* C17: after a delete_selected_event or an undo, the selection is none or
\* the index of an event of the current list.
C17_SelectionInRange ==
    last.op \in {"delete_selected_event", "undo"} =>
        \/ selected_event = None
        \/ 0 <= selected_event /\ selected_event < Len(events)

\* an undo that restored a list too short for the selection held before it
C17_Witness ==
    /\ last.op = "undo"
    /\ last.ok
    /\ last.pre.selected_event # None
    /\ last.pre.selected_event >= Len(events)
    /\ events # << >>
    /\ selected_event = None

\* C18: a successful delete_selected_event pushes one snapshot of the list
\* before the call, removes the selected event and no other (the others keep
\* their order and values), and leaves the selection at the same index if
\* that is still in range, at the last index if it is not, and at none if
\* the list is now empty.
C18_DeleteRemovesSelected ==
    (last.op = "delete_selected_event" /\ last.ok) =>
        LET i == last.pre.selected_event
            old == last.pre.events
        IN  /\ 0 <= i /\ i < Len(old)
            /\ Len(events) = Len(old) - 1
            /\ \A k \in DOMAIN events :
                   events[k] = IF k <= i THEN old[k] ELSE old[k + 1]
            /\ event_history = Pushed(last.pre.event_history, old)
            /\ selected_event = IF Len(events) = 0 THEN None
                                ELSE IF i >= Len(events) THEN Len(events) - 1
                                ELSE i

\* the first of three events deleted: the selection stays at index 0, which
\* is not the last index
C18_Witness ==
    /\ last.op = "delete_selected_event"
    /\ last.ok
    /\ Len(events) = 2
    /\ last.pre.selected_event = 0
    /\ selected_event = 0

\* C19: a successful mark_start(frame) (mark_end(frame)) pushes one snapshot
\* of the list before the call and sets the start (the end) of the selected
\* event to frame, whatever it was before; the other bound and the name of
\* that event, every other event, the order of the list and the selection
\* are as before the call.
C19_MarkSetsOneBound ==
    (last.op \in {"mark_start", "mark_end"} /\ last.ok) =>
        LET i == last.pre.selected_event + 1
            old == last.pre.events
            frame == last.arg[1]
        IN  /\ event_history = Pushed(last.pre.event_history, old)
            /\ selected_event = last.pre.selected_event
            /\ Len(events) = Len(old)
            /\ \A k \in DOMAIN events : k # i => events[k] = old[k]
            /\ events[i].name = old[i].name
            /\ IF last.op = "mark_start"
               THEN events[i].start = frame /\ events[i].end = old[i].end
               ELSE events[i].end = frame /\ events[i].start = old[i].start

\* a start set before and overwritten by another frame, the end set, with
\* another event in the list
C19_Witness ==
    /\ last.op = "mark_start"
    /\ last.ok
    /\ Len(events) >= 2
    /\ last.pre.events[last.pre.selected_event + 1].start # Unset
    /\ last.pre.events[last.pre.selected_event + 1].start # last.arg[1]
    /\ events[selected_event + 1].end # Unset

\* C20: a load_video that goes on past the question about unsaved changes
\* leaves the manager as loading the files of the new recording into a new
\* manager leaves it (an empty new manager if the video does not open): no
\* event, selection or snapshot of the recording before remains, and an undo
\* made next yields only events of the new recording.
C20_SwitchStartsFromCleared ==
    /\ (last.op = "load_video" /\ last.msg = "loaded") =>
           EM = _load_associated_data(NewManager, csv_file, marker_file)
    /\ (last.op = "load_video" /\ last.msg = "Error opening video") =>
           EM = NewManager
    /\ (prev.op = "load_video" /\ prev.msg # "cancelled" /\ last.op = "undo") =>
           \A i \in DOMAIN events :
               \E k \in DOMAIN last.pre.events : events[i] = last.pre.events[k]

\* a switch away from a recording with an event, a selection and a snapshot
\* to a recording whose files hold events
C20_Witness ==
    /\ last.op = "load_video"
    /\ last.msg = "loaded"
    /\ last.pre.events # << >>
    /\ last.pre.selected_event # None
    /\ last.pre.event_history # << >>
    /\ csv_file.exists
    /\ marker_file.exists
    /\ events # << >>
    /\ \A i \in DOMAIN events :
           \A k \in DOMAIN last.pre.events : events[i] # last.pre.events[k]

\* indexes of the marker-interval events of evs with both bounds set
CompletedMarkers(evs) ==
    { i \in DOMAIN evs : /\ is_marker_interval_event(evs[i].name)
                         /\ evs[i].start # Unset
                         /\ evs[i].end # Unset }

\* C21: a save_to_csv call with complete metadata and no incomplete
\* non-marker event succeeds whatever the bounds of the marker-interval events
\* are, and the events.csv of a successful save has no row for a
\* marker-interval event; save_marker_intervals on a list with marker-interval
\* events writes a markerInterval.tsv with the header start_frame, end_frame
\* and one row (start, end) per marker-interval event with both bounds set,
\* in list order, and no other row.
C21_MarkersRoutedToTsv ==
    /\ (last.op = "save_to_csv" /\ MetadataFilled /\ ~HasIncomplete(events)) =>
           last.ok
    /\ (last.op = "save_to_csv" /\ last.ok) =>
           /\ \A k \in DOMAIN csv_file.rows :
                  ~is_marker_interval_event(csv_file.rows[k][3])
           /\ Len(csv_file.rows) =
                  Cardinality({ i \in DOMAIN events :
                                    ~is_marker_interval_event(events[i].name) })
    /\ (/\ last.op = "save_marker_intervals"
        /\ \E i \in DOMAIN events : is_marker_interval_event(events[i].name)) =>
           /\ marker_file.exists
           /\ marker_file.header = <<"start_frame", "end_frame">>
           /\ Len(marker_file.rows) = Cardinality(CompletedMarkers(events))
           /\ \A i \in CompletedMarkers(events) :
                  LET k == Cardinality({ j \in CompletedMarkers(events) : j <= i })
                  IN  marker_file.rows[k] = << IntToStr(events[i].start),
                                               IntToStr(events[i].end) >>

\* a successful save of a plain event and a completed marker-interval event,
\* followed by the save of the marker intervals
C21_Witness ==
    /\ prev.op = "save_to_csv"
    /\ prev.ok
    /\ last.op = "save_marker_intervals"
    /\ Len(events) = 2
    /\ CompletedMarkers(events) # {}
    /\ Len(csv_file.rows) = 1
    /\ Len(marker_file.rows) = 1

\* C22: the data rows of the events.csv a successful save_to_csv wrote are
\* the non-marker events of the list, one row each, in ascending order of
\* their start frame whatever the order of the list is; every row has a start
\* frame, so no row is there to sort last.
C22_RowsAscendingByStart ==
    (last.op = "save_to_csv" /\ last.ok) =>
        /\ \A k \in DOMAIN csv_file.rows :
               /\ csv_file.rows[k][4] # S_NA
               /\ ~ParseInt(csv_file.rows[k][4]).raised
        /\ \A k \in 1..(Len(csv_file.rows) - 1) :
               ParseInt(csv_file.rows[k][4]).val <= ParseInt(csv_file.rows[k + 1][4]).val
        /\ \A i \in DOMAIN events :
               ~is_marker_interval_event(events[i].name) =>
                   \E k \in DOMAIN csv_file.rows :
                       /\ csv_file.rows[k][3] = events[i].name
                       /\ csv_file.rows[k][4] = IntToStr(events[i].start)

\* a successful save of two events created in descending order of start
C22_Witness ==
    /\ last.op = "save_to_csv"
    /\ last.ok
    /\ Len(events) = 2
    /\ Len(csv_file.rows) = 2
    /\ events[1].start > events[2].start
    /\ csv_file.rows[1][3] = events[2].name
    /\ csv_file.rows[2][3] = events[1].name

\* C23: jump_to_event(index, use_end) leaves the list, the selection and the
\* history as they were; for an index of the list it returns the end if
\* use_end and the end is set, else the start if set, else the end if set,
\* else none; for an index outside the list it returns none.
C23_JumpIsPureLookup ==
    last.op = "jump_to_event" =>
        LET index == last.arg[1]
            use_end == last.arg[2]
        IN  /\ EM = last.pre
            /\ (index < 0 \/ index >= Len(events)) => last.ret = None
            /\ (0 <= index /\ index < Len(events)) =>
                   LET start == events[index + 1].start
                       end == events[index + 1].end
                   IN  /\ (use_end /\ end # Unset) => last.ret = end
                       /\ (~(use_end /\ end # Unset) /\ start # Unset) =>
                              last.ret = start
                       /\ (~use_end /\ start = Unset /\ end # Unset) =>
                              last.ret = end
                       /\ (start = Unset /\ end = Unset) => last.ret = None

\* a jump to the end of an event whose start and end differ
C23_Witness ==
    /\ last.op = "jump_to_event"
    /\ last.arg[2]
    /\ 0 <= last.arg[1]
    /\ last.arg[1] < Len(events)
    /\ events[last.arg[1] + 1].start # Unset
    /\ events[last.arg[1] + 1].end # events[last.arg[1] + 1].start
    /\ last.ret = events[last.arg[1] + 1].end
    /\ last.ret # None

\* C24: a load_video goes past check_unsaved_changes only when there were no
\* unsaved changes, the changes were saved, or the answer was Discard, and it
\* stops there when the answer is Cancel; after the answer Save the list is
\* cleared only if the save succeeded.
C24_ProceedsOnlyWhenSafe ==
    (last.op = "load_video" /\ last.asked) =>
        /\ last.arg[2] = "Cancel" => last.msg = "cancelled"
        /\ last.msg # "cancelled" => (last.saved \/ last.arg[2] = "Discard")
        /\ (last.arg[2] = "Save" /\ ~last.saved) => EM = last.pre

\* C25: in every state reached through the manager's operations, the loads
\* from files included, selected_event is None or an index of the event
\* list, so mark_start and mark_end never index past the end of the list.
C25_SelectionInRangeAcrossLoads ==
    selected_event # None => selected_event + 1 \in DOMAIN events

\* C26: an undo made right after a recording was loaded, before any edit,
\* either fails or leaves the event list equal to the loaded one.
C26_UndoKeepsLoadedEvents ==
    (prev.op = "load_video" /\ prev.ok /\ last.op = "undo") =>
        (~last.ok \/ events = last.pre.events)

\* the number of marker interval events of evs with bounds p, the ones with
\* an unset bound left out
MarkerPairCount(evs, p) ==
    Cardinality({ i \in CompletedMarkers(evs) : <<evs[i].start, evs[i].end>> = p })

\* the bounds of the events of evs
BoundsOf(evs) == { <<evs[i].start, evs[i].end>> : i \in DOMAIN evs }

\* C27: saving the recording and loading the same recording again gives back
\* the completed marker intervals of the list at the time of the save, each
\* (start, end) pair as many times as it was there, none lost and none
\* added; with no marker interval event left at the save, none comes back.
C27_MarkersSurviveReload ==
    (/\ last.op = "load_video"
     /\ last.ok
     /\ last.asked
     /\ last.arg[2] = "Save"
     /\ last.arg[1] = last.current) =>
        /\ \A p \in BoundsOf(events) \cup BoundsOf(last.pre.events) :
               MarkerPairCount(events, p) = MarkerPairCount(last.pre.events, p)
        /\ \A i \in DOMAIN events :
               is_marker_interval_event(events[i].name) =>
                   i \in CompletedMarkers(events)

\* C28: while the playback runs, one timeout of the timer moves current_frame
\* forward by exactly one frame, or stops the playback at the last frame,
\* however many times the playback was paused and resumed before.
C28_OneFramePerTimeout ==
    last.op = "timeout" =>
        \/ video_manager.current_frame = last.pre_vm.current_frame + 1
        \/ /\ last.pre_vm.current_frame >= last.pre_vm.total_frames - 1
           /\ video_manager.current_frame = last.pre_vm.current_frame
           /\ ~video_manager.playing

\* C29: on a loaded video of at least one frame, once the playback runs and
\* no further button or key is pressed, the timer firing again and again
\* brings the playback to a stop by itself: current_frame reaches
\* total_frames - 1 without ever going past it, then playing is false and the
\* timer is stopped.
C29_PlaybackStopsByItself ==
    /\ [](video_manager.total_frames >= 1 =>
             video_manager.current_frame <= video_manager.total_frames - 1)
    /\ (/\ video_manager.total_frames >= 1
        /\ video_manager.playing
        /\ video_manager.timer_active
        /\ fuel = 0)
           ~> (/\ video_manager.current_frame = video_manager.total_frames - 1
               /\ ~video_manager.playing
               /\ ~video_manager.timer_active)

\* a playback left to itself was stopped by a timeout at the last frame
C29_Witness ==
    /\ last.op = "timeout"
    /\ fuel = 0
    /\ last.pre_vm.playing
    /\ last.pre_vm.timer_active
    /\ video_manager.total_frames >= 2
    /\ video_manager.current_frame = video_manager.total_frames - 1
    /\ ~video_manager.playing
    /\ ~video_manager.timer_active

\* the positions (in the list the dialog opened with) of the event types that
\* are still in the list under the name they had
Unrenamed(list, orig) ==
    { list[i].origin : i \in { k \in DOMAIN list :
                                  /\ list[k].origin # 0
                                  /\ list[k].name = orig[list[k].origin] } }

\* C30: after any rename, delete and add of event types, a save reports
\* old -> new as a rename only for an event type the user renamed from old to
\* new, and the update of events.csv leaves every row of an event type that
\* is still in the list under its old name as it was.
C30_RenamesOnlyEditedTypes ==
    (last.op = "save_project" /\ last.ran) =>
        /\ \A old \in DOMAIN last.changes.renames :
               \E i \in DOMAIN events_list :
                   /\ events_list[i].origin # 0
                   /\ original_event_names[events_list[i].origin] = old
                   /\ events_list[i].name = last.changes.renames[old]
                   /\ events_list[i].name # old
        /\ \A j \in Unrenamed(events_list, original_event_names) :
               \A k \in DOMAIN last.pre_file.rows :
                   last.pre_file.rows[k][3] = original_event_names[j] =>
                       \E m \in DOMAIN csv_file.rows :
                           csv_file.rows[m] = last.pre_file.rows[k]
=============================================================================
